---- MODULE Spec2Model ----
(***************************************************************************)
(* Model of cargo-asm's assembly AST (src/asm/ast.rs): the constructors    *)
(* that classify one raw line into a Label, Directive, Comment or          *)
(* Instruction, the location each Label/Instruction carries, and the       *)
(* should_print / format / rust_loc operations on statements.              *)
(*                                                                         *)
(* Rust strings are modelled as sequences of one-character strings, so     *)
(* that starts_with, ends_with, split, split_whitespace, parse and format! *)
(* are computed character by character.  Option<T> values are records      *)
(* tagged "None" / "Some"; a call that panics (unwrap on None or Err, an   *)
(* out-of-bounds index) yields a record tagged "Panic" carrying the source *)
(* line of the panic.                                                      *)
(***************************************************************************)
EXTENDS Integers, Sequences, FiniteSets, TLC

VARIABLES input, lines, current_location, statements, status, probe

vars == <<input, lines, current_location, statements, status, probe>>

----------------------------------------------------------------------------
(* Option / panic encoding *)

None == [tag |-> "None"]

Some(v) == [tag |-> "Some", val |-> v]

Panic(l) == [tag |-> "Panic", line |-> l]

----------------------------------------------------------------------------
(* Bounds of the model *)

\* longest input of the function-assembly specification
MaxLines == 3

\* most whitespace-separated tokens after the leading one in a generated line
MaxArgs == 3

----------------------------------------------------------------------------
(* Character strings *)

S_colon == <<":">>

S_dot == <<".">>

S_semi == <<";">>

S_quote == <<"\"">>

S_space == <<" ">>

S_zero == <<"0">>

S_file == <<".", "f", "i", "l", "e">>

S_loc == <<".", "l", "o", "c">>

S_call == <<"c", "a", "l", "l">>

S_Lcfi == <<"L", "c", "f", "i">>

S_Ltmp == <<"L", "t", "m", "p">>

S_Lfunc_end == <<"L", "f", "u", "n", "c", "_", "e", "n", "d">>

S_None == <<"N", "o", "n", "e">>

S_rloc == <<" ", "|", " ", "r", "l", "o", "c", ":", " ">>

S_mangled == <<"_", "Z", "N", "3", "f", "o", "o", "3", "b", "a", "r", "E">>

S_bar == <<"b", "a", "r">>

Digits == {"0", "1", "2", "3", "4", "5", "6", "7", "8", "9"}

DigitVal(c) ==
  CASE c = "0" -> 0 [] c = "1" -> 1 [] c = "2" -> 2 [] c = "3" -> 3
    [] c = "4" -> 4 [] c = "5" -> 5 [] c = "6" -> 6 [] c = "7" -> 7
    [] c = "8" -> 8 [] c = "9" -> 9

DigitChar(n) ==
  CASE n = 0 -> "0" [] n = 1 -> "1" [] n = 2 -> "2" [] n = 3 -> "3"
    [] n = 4 -> "4" [] n = 5 -> "5" [] n = 6 -> "6" [] n = 7 -> "7"
    [] n = 8 -> "8" [] n = 9 -> "9"

\* char::is_whitespace, restricted to the characters of the model
IsWhitespace(c) == c \in {" ", "\t"}

\* str::starts_with
StartsWith(s, p) == Len(s) >= Len(p) /\ SubSeq(s, 1, Len(p)) = p

\* str::ends_with
EndsWith(s, p) ==
  Len(s) >= Len(p) /\ SubSeq(s, Len(s) - Len(p) + 1, Len(s)) = p

\* index of the first character of s satisfying the test, Len(s)+1 if none
FirstWhitespace(s) ==
  IF \E i \in 1..Len(s) : IsWhitespace(s[i])
  THEN CHOOSE i \in 1..Len(s) :
         /\ IsWhitespace(s[i])
         /\ \A j \in 1..(i - 1) : ~IsWhitespace(s[j])
  ELSE Len(s) + 1

FirstQuote(s) ==
  IF \E i \in 1..Len(s) : s[i] = "\""
  THEN CHOOSE i \in 1..Len(s) :
         /\ s[i] = "\""
         /\ \A j \in 1..(i - 1) : s[j] # "\""
  ELSE Len(s) + 1

\* str::split_whitespace: the maximal runs of non-whitespace, in order
RECURSIVE SplitWhitespace(_)
SplitWhitespace(s) ==
  IF s = <<>> THEN <<>>
  ELSE IF IsWhitespace(Head(s)) THEN SplitWhitespace(Tail(s))
  ELSE LET n == FirstWhitespace(s) - 1
       IN  <<SubSeq(s, 1, n)>> \o SplitWhitespace(SubSeq(s, n + 1, Len(s)))

\* s.split('"').nth(1): the text after the first quote, up to the next
\* quote or the end of the string; None when s has no quote
SplitQuoteNth1(s) ==
  LET q == FirstQuote(s)
  IN  IF q > Len(s) THEN None
      ELSE LET rest == SubSeq(s, q + 1, Len(s))
           IN  Some(SubSeq(rest, 1, FirstQuote(rest) - 1))

\* Iterator::nth(n) on a sequence of tokens (n counted from 0)
Nth(toks, n) == IF Len(toks) > n THEN Some(toks[n + 1]) ELSE None

RECURSIVE DigitsValue(_, _)
DigitsValue(ds, acc) ==
  IF ds = <<>> THEN acc
  ELSE DigitsValue(Tail(ds), acc * 10 + DigitVal(Head(ds)))

\* <usize as FromStr>::from_str: an optional '+', then one or more decimal
\* digits.  (Overflow of usize needs a token of 20 digits; the tokens of the
\* model are far shorter.)
ParseUsize(tok) ==
  LET body == IF tok # <<>> /\ Head(tok) = "+" THEN Tail(tok) ELSE tok
  IN  IF body = <<>> \/ \E i \in 1..Len(body) : body[i] \notin Digits
      THEN None
      ELSE Some(DigitsValue(body, 0))

\* Display for usize
RECURSIVE ToDecimal(_)
ToDecimal(n) ==
  IF n < 10 THEN <<DigitChar(n)>>
  ELSE ToDecimal(n \div 10) \o <<DigitChar(n % 10)>>

\* [String]::join(" ")
RECURSIVE JoinSpace(_)
JoinSpace(ss) ==
  IF ss = <<>> THEN <<>>
  ELSE IF Len(ss) = 1 THEN ss[1]
  ELSE ss[1] \o S_space \o JoinSpace(Tail(ss))

\* ::demangle::demangle, a total function that returns unrecognised input
\* unchanged
demangle(s) == IF s = S_mangled THEN S_bar ELSE s

----------------------------------------------------------------------------
(* Label *)

\* LabelNew that forgets the location in effect
LabelNew_DropsLocation(s, rust_loc_off) ==
  IF EndsWith(s, S_colon)
  THEN Some([variant |-> "Label",
             id |-> SubSeq(s, 1, Len(s) - 1),
             rust_loc_off |-> None])
  ELSE None

LabelNew(s, rust_loc_off) ==
  IF EndsWith(s, S_colon)
  THEN Some([variant |-> "Label",
             id |-> SubSeq(s, 1, Len(s) - 1),
             rust_loc_off |-> rust_loc_off])
  ELSE None

LabelRustLoc(l) == l.rust_loc_off

\* LabelShouldPrint without the test for function-end labels
LabelShouldPrint_ShowsFuncEnd(l, opts) ==
  /\ ~StartsWith(l.id, S_Lcfi)
  /\ ~StartsWith(l.id, S_Ltmp)

LabelShouldPrint(l, opts) ==
  /\ ~StartsWith(l.id, S_Lcfi)
  /\ ~StartsWith(l.id, S_Ltmp)
  /\ ~StartsWith(l.id, S_Lfunc_end)

LabelFormat(l, opts) == <<" ", " ">> \o l.id \o S_colon

----------------------------------------------------------------------------
(* Directives *)

FileNew(s) ==
  IF ~StartsWith(s, S_file) THEN None
  ELSE LET path  == SplitQuoteNth1(s)
           index == Nth(SplitWhitespace(s), 1)
       IN  IF path = None THEN Panic(70)
           ELSE IF index = None THEN Panic(71)
           ELSE IF ParseUsize(index.val) = None THEN Panic(74)
           ELSE Some([d |-> "File",
                      path |-> path.val,
                      index |-> ParseUsize(index.val).val])

FileRustLoc(f) == None

\* FileFormat that writes the path before the index
FileFormat_PathFirst(f, opts) ==
  S_file \o S_space \o S_quote \o f.path \o S_quote
         \o S_space \o ToDecimal(f.index)

FileFormat(f, opts) ==
  S_file \o S_space \o ToDecimal(f.index) \o S_space
         \o S_quote \o f.path \o S_quote

\* LocNew whose missing column defaults to 1
LocNew_ColumnOne(s) ==
  IF ~StartsWith(s, S_loc) THEN None
  ELSE LET it          == SplitWhitespace(s)
           file_index  == Nth(it, 1)
           file_line   == Nth(it, 2)
           file_column == IF Nth(it, 3) = None THEN <<"1">> ELSE Nth(it, 3).val
       IN  IF file_index = None THEN Panic(98)
           ELSE IF file_line = None THEN Panic(99)
           ELSE IF ParseUsize(file_index.val) = None THEN Panic(102)
           ELSE IF ParseUsize(file_line.val) = None THEN Panic(103)
           ELSE IF ParseUsize(file_column) = None THEN Panic(104)
           ELSE Some([d |-> "Loc",
                      file_index  |-> ParseUsize(file_index.val).val,
                      file_line   |-> ParseUsize(file_line.val).val,
                      file_column |-> ParseUsize(file_column).val])

LocNew(s) ==
  IF ~StartsWith(s, S_loc) THEN None
  ELSE LET it          == SplitWhitespace(s)
           file_index  == Nth(it, 1)
           file_line   == Nth(it, 2)
           file_column == IF Nth(it, 3) = None THEN S_zero ELSE Nth(it, 3).val
       IN  IF file_index = None THEN Panic(98)
           ELSE IF file_line = None THEN Panic(99)
           ELSE IF ParseUsize(file_index.val) = None THEN Panic(102)
           ELSE IF ParseUsize(file_line.val) = None THEN Panic(103)
           ELSE IF ParseUsize(file_column) = None THEN Panic(104)
           ELSE Some([d |-> "Loc",
                      file_index  |-> ParseUsize(file_index.val).val,
                      file_line   |-> ParseUsize(file_line.val).val,
                      file_column |-> ParseUsize(file_column).val])

\* LocRustLoc that answers with the location the directive declares
LocRustLoc_Self(l) ==
  Some([file_index  |-> l.file_index,
        file_line   |-> l.file_line,
        file_column |-> l.file_column])

LocRustLoc(l) == None

LocFormat(l, opts) ==
  S_loc \o S_space \o ToDecimal(l.file_index) \o S_space
        \o ToDecimal(l.file_line) \o S_space \o ToDecimal(l.file_column)

GenericDirectiveNew(s) ==
  IF StartsWith(s, S_dot) THEN Some([d |-> "Generic", string |-> s])
  ELSE None

GenericDirectiveRustLoc(g) == None

GenericDirectiveFormat(g, opts) == g.string

DirectiveNew(s) ==
  IF StartsWith(s, S_dot)
  THEN LET file == FileNew(s)
       IN  IF file.tag = "Panic" THEN file
           ELSE IF file.tag = "Some"
           THEN Some([variant |-> "Directive", dir |-> file.val])
           ELSE LET loc == LocNew(s)
                IN  IF loc.tag = "Panic" THEN loc
                    ELSE IF loc.tag = "Some"
                    THEN Some([variant |-> "Directive", dir |-> loc.val])
                    ELSE LET g == GenericDirectiveNew(s)
                         IN  IF g.tag = "None" THEN Panic(150)
                             ELSE Some([variant |-> "Directive",
                                        dir |-> g.val])
  ELSE None

DirectiveRustLoc(dv) ==
  CASE dv.dir.d = "File"    -> FileRustLoc(dv.dir)
    [] dv.dir.d = "Loc"     -> LocRustLoc(dv.dir)
    [] dv.dir.d = "Generic" -> GenericDirectiveRustLoc(dv.dir)

\* Directive::loc
DirectiveLoc(dv) ==
  IF dv.dir.d = "Loc"
  THEN Some([file_index  |-> dv.dir.file_index,
             file_line   |-> dv.dir.file_line,
             file_column |-> dv.dir.file_column])
  ELSE None

\* Directive::file
DirectiveFile(dv) ==
  IF dv.dir.d = "File"
  THEN Some([path |-> dv.dir.path, index |-> dv.dir.index])
  ELSE None

DirectiveShouldPrint(dv, opts) == opts.directives

DirectiveFormat(dv, opts) ==
  CASE dv.dir.d = "File"    -> FileFormat(dv.dir, opts)
    [] dv.dir.d = "Loc"     -> LocFormat(dv.dir, opts)
    [] dv.dir.d = "Generic" -> GenericDirectiveFormat(dv.dir, opts)

----------------------------------------------------------------------------
(* Comment *)

CommentNew(s) ==
  IF StartsWith(s, S_semi) THEN Some([variant |-> "Comment", string |-> s])
  ELSE None

CommentRustLoc(c) == None

CommentShouldPrint(c, opts) == opts.comments

CommentFormat(c, opts) == <<" ", " ">> \o c.string

----------------------------------------------------------------------------
(* Instruction *)

InstructionNew(s, rust_loc_off) ==
  LET iter == SplitWhitespace(s)
  IN  IF iter = <<>> THEN Panic(222)
      ELSE LET instr == Head(iter)
               args  == Tail(iter)
           IN  IF instr = S_call
               THEN IF args = <<>> THEN Panic(228)
                    ELSE Some([variant |-> "Instruction",
                               instr |-> instr,
                               args |-> <<demangle(args[1])>> \o Tail(args),
                               rust_loc_off |-> rust_loc_off])
               ELSE Some([variant |-> "Instruction",
                          instr |-> instr,
                          args |-> args,
                          rust_loc_off |-> rust_loc_off])

InstructionRustLoc(i) == i.rust_loc_off

InstructionShouldPrint(i, opts) == TRUE

\* {:?} of Option<(usize, usize)>
DebugRloc(o) ==
  IF o = None THEN S_None
  ELSE <<"S", "o", "m", "e", "(", "(">> \o ToDecimal(o.val.file_index)
       \o <<",", " ">> \o ToDecimal(o.val.file_line) \o <<")", ")">>

\* InstructionFormat that joins mnemonic and operands, leaving no space
\* after a mnemonic without operands
InstructionFormat_Trimmed(i, opts) ==
  IF opts.verbose
  THEN <<" ", " ", " ", " ">> \o JoinSpace(<<i.instr>> \o i.args)
       \o S_rloc \o DebugRloc(i.rust_loc_off)
  ELSE <<" ", " ", " ", " ">> \o JoinSpace(<<i.instr>> \o i.args)

InstructionFormat(i, opts) ==
  IF opts.verbose
  THEN <<" ", " ", " ", " ">> \o i.instr \o S_space \o JoinSpace(i.args)
       \o S_rloc \o DebugRloc(InstructionRustLoc(i))
  ELSE <<" ", " ", " ", " ">> \o i.instr \o S_space \o JoinSpace(i.args)

----------------------------------------------------------------------------
(* Statement *)

StatementShouldPrint(st, opts) ==
  CASE st.variant = "Label"       -> LabelShouldPrint(st, opts)
    [] st.variant = "Directive"   -> DirectiveShouldPrint(st, opts)
    [] st.variant = "Instruction" -> InstructionShouldPrint(st, opts)
    [] st.variant = "Comment"     -> CommentShouldPrint(st, opts)

StatementFormat(st, opts) ==
  CASE st.variant = "Label"       -> LabelFormat(st, opts)
    [] st.variant = "Directive"   -> DirectiveFormat(st, opts)
    [] st.variant = "Instruction" -> InstructionFormat(st, opts)
    [] st.variant = "Comment"     -> CommentFormat(st, opts)

\* StatementRustLoc without the comparison of file indices
StatementRustLoc_IgnoresFile(st, file) ==
  LET loc == CASE st.variant = "Label"       -> LabelRustLoc(st)
               [] st.variant = "Directive"   -> DirectiveRustLoc(st)
               [] st.variant = "Instruction" -> InstructionRustLoc(st)
               [] st.variant = "Comment"     -> CommentRustLoc(st)
  IN  IF loc = None THEN None
      ELSE Some(loc.val.file_line)

StatementRustLoc(st, file) ==
  LET loc == CASE st.variant = "Label"       -> LabelRustLoc(st)
               [] st.variant = "Directive"   -> DirectiveRustLoc(st)
               [] st.variant = "Instruction" -> InstructionRustLoc(st)
               [] st.variant = "Comment"     -> CommentRustLoc(st)
  IN  IF loc = None THEN None
      ELSE IF loc.val.file_index # file.index THEN None
      ELSE Some(loc.val.file_line)

----------------------------------------------------------------------------
(* The parse driver: one raw line and the location in effect to a statement *)

\* first constructor that accepts the line wins: label, directive, comment,
\* instruction; a panic of a constructor aborts the classification
Classify(s, rust_loc_off) ==
  LET label == LabelNew(s, rust_loc_off)
  IN  IF label.tag = "Some" THEN label
      ELSE LET directive == DirectiveNew(s)
           IN  IF directive.tag # "None" THEN directive
               ELSE LET comment == CommentNew(s)
                    IN  IF comment.tag = "Some" THEN comment
                        ELSE InstructionNew(s, rust_loc_off)

\* the location later statements inherit after st has been classified
NextLocation(st, cur) ==
  IF st.variant = "Directive" /\ DirectiveLoc(st) # None
  THEN DirectiveLoc(st)
  ELSE cur

\* the rendering loop: the text of every statement that should be printed
RECURSIVE RenderAll(_, _)
RenderAll(sts, opts) ==
  IF sts = <<>> THEN <<>>
  ELSE IF StatementShouldPrint(Head(sts), opts)
  THEN <<StatementFormat(Head(sts), opts)>> \o RenderAll(Tail(sts), opts)
  ELSE RenderAll(Tail(sts), opts)

----------------------------------------------------------------------------
(* Inputs *)

Options ==
  [directives : BOOLEAN, comments : BOOLEAN, verbose : BOOLEAN]

Files ==
  { [path |-> <<"m", "a", "i", "n", ".", "r", "s">>, index |-> k] :
      k \in {1, 2} }

L_file == <<".", "f", "i", "l", "e", " ", "1", " ", "\"", "m", "a", "i", "n", ".", "r", "s", "\"">>

L_loc_1_1_0 == <<".", "l", "o", "c", " ", "1", " ", "1", " ", "0">>

L_loc_1_2_0 == <<".", "l", "o", "c", " ", "1", " ", "2", " ", "0">>

L_loc_2_7 == <<".", "l", "o", "c", " ", "2", " ", "7">>

L_loc_x == <<".", "l", "o", "c", " ", "x">>

L_LBB0 == <<"L", "B", "B", "0", ":">>

L_Ltmp0 == <<"L", "t", "m", "p", "0", ":">>

L_push == <<"p", "u", "s", "h", " ", "r", "b", "p">>

L_call == <<"c", "a", "l", "l", " ", "_", "Z", "N", "3", "f", "o", "o", "3", "b", "a", "r", "E">>

L_ret == <<"r", "e", "t">>

L_comment == <<";", " ", "c">>

L_text == <<".", "t", "e", "x", "t">>

\* the lines of the function-assembly specification
SeqLines ==
  {L_file, L_loc_1_1_0, L_loc_2_7, L_loc_x, L_LBB0, L_push, L_comment, L_text}

\* all sequences over S of length at most n
BoundedSeq(S, n) == UNION { [1..k -> S] : k \in 0..n }

\* the generated lines: a leading piece, then up to MaxArgs tokens each
\* preceded by one space, then an optional trailing colon
Heads ==
  { <<>>, S_file, S_loc, L_text, S_semi, S_call, <<"\t", "r", "e", "t">>,
    <<"L", "B", "B", "0">>, S_Lcfi, S_Ltmp, S_Lfunc_end }

Args ==
  { <<"1">>, <<"1", "0">>, <<"x">>, <<"\"", "a", ".", "r", "s", "\"">>,
    <<"\"", "b">>, S_mangled }

Tails == { <<>>, S_colon }

RECURSIVE SpacedArgs(_)
SpacedArgs(as) ==
  IF as = <<>> THEN <<>> ELSE S_space \o Head(as) \o SpacedArgs(Tail(as))

MkLine(h, as, t) == h \o SpacedArgs(as) \o t

LineSet ==
  { MkLine(h, as, t) : h \in Heads, as \in BoundedSeq(Args, MaxArgs),
                       t \in Tails }

\* the listing of the end-to-end example
E2ELines ==
  <<L_file, L_loc_1_1_0, L_LBB0, L_push, L_loc_1_2_0, L_call, L_Ltmp0, L_ret>>

\* the subsequence of s at the positions in keep
RECURSIVE Pick(_, _, _)
Pick(s, keep, i) ==
  IF i > Len(s) THEN <<>>
  ELSE IF i \in keep THEN <<s[i]>> \o Pick(s, keep, i + 1)
  ELSE Pick(s, keep, i + 1)

E2EInputs == { Pick(E2ELines, keep, 1) : keep \in SUBSET (1..Len(E2ELines)) }

----------------------------------------------------------------------------
(* State machine *)

NoProbe == [op |-> "none"]

InitWith(inp) ==
  /\ input = inp
  /\ lines = <<>>
  /\ current_location = None
  /\ statements = <<>>
  /\ status = IF inp = <<>> THEN "built" ELSE "parsing"
  /\ probe = NoProbe

\* a function body of at most MaxLines lines
Init == \E inp \in BoundedSeq(SeqLines, MaxLines) : InitWith(inp)

\* one generated line, alone or after a location directive
InitLine ==
  \E l \in LineSet : \E inp \in {<<l>>, <<L_loc_2_7, l>>} : InitWith(inp)

\* the end-to-end listing and its sub-listings
InitE2E == \E inp \in E2EInputs : InitWith(inp)

\* the driver classifies the next line with the location in effect
ClassifyNext ==
  /\ status = "parsing"
  /\ input # <<>>
  /\ LET r == Classify(Head(input), current_location)
     IN  /\ lines' = Append(lines, Head(input))
         /\ input' = Tail(input)
         /\ IF r.tag = "Some"
            THEN /\ statements' = Append(statements, r.val)
                 /\ current_location' = NextLocation(r.val, current_location)
                 /\ status' = IF Tail(input) = <<>> THEN "built" ELSE "parsing"
            ELSE /\ statements' = statements
                 /\ current_location' = current_location
                 /\ status' = "aborted"
  /\ probe' = NoProbe

\* The queries below read the built function and change nothing of it; the
\* model records one query per behaviour in probe.

\* Statement::should_print on a statement of the built function
ShouldPrint(i, o) ==
  /\ status = "built"
  /\ probe = NoProbe
  /\ probe' = [op |-> "should_print", index |-> i, opts |-> o,
               result |-> StatementShouldPrint(statements[i], o)]
  /\ UNCHANGED <<input, lines, current_location, statements, status>>

\* Statement::format on a statement of the built function, and the
\* classification of the text it produced
Format(i, o) ==
  /\ status = "built"
  /\ probe = NoProbe
  /\ LET text == StatementFormat(statements[i], o)
     IN  probe' = [op |-> "format", index |-> i, opts |-> o, text |-> text,
                   reparsed |-> Classify(text, None)]
  /\ UNCHANGED <<input, lines, current_location, statements, status>>

\* Statement::rust_loc on a statement of the built function
Resolve(i, f) ==
  /\ status = "built"
  /\ probe = NoProbe
  /\ probe' = [op |-> "rust_loc", index |-> i, file |-> f,
               result |-> StatementRustLoc(statements[i], f)]
  /\ UNCHANGED <<input, lines, current_location, statements, status>>

\* the built function rendered under the options o
Render(o) ==
  /\ status = "built"
  /\ probe = NoProbe
  /\ probe' = [op |-> "render", opts |-> o, out |-> RenderAll(statements, o)]
  /\ UNCHANGED <<input, lines, current_location, statements, status>>

Next ==
  \/ ClassifyNext
  \/ \E i \in 1..Len(statements) : \E o \in Options : ShouldPrint(i, o)
  \/ \E i \in 1..Len(statements) : \E o \in Options : Format(i, o)
  \/ \E i \in 1..Len(statements) : \E f \in Files : Resolve(i, f)
  \/ \E o \in Options : Render(o)

Spec == Init /\ [][Next]_vars

SpecLine == InitLine /\ [][Next]_vars

SpecE2E == InitE2E /\ [][Next]_vars

----------------------------------------------------------------------------
(* Vocabulary of the properties *)

IsLocDirective(st) == st.variant = "Directive" /\ st.dir.d = "Loc"

IsFileDirective(st) == st.variant = "Directive" /\ st.dir.d = "File"

LocValue(st) ==
  [file_index  |-> st.dir.file_index,
   file_line   |-> st.dir.file_line,
   file_column |-> st.dir.file_column]

\* the value of the last LocDirective among sts[1..i-1], None if there is none
RECURSIVE LastLocBefore(_, _)
LastLocBefore(sts, i) ==
  IF i <= 1 THEN None
  ELSE IF IsLocDirective(sts[i - 1]) THEN Some(LocValue(sts[i - 1]))
  ELSE LastLocBefore(sts, i - 1)

\* the location a statement carries
AttachedLocation(st) ==
  IF st.variant \in {"Label", "Instruction"} THEN st.rust_loc_off ELSE None

\* the variant the precedence label, directive, comment, instruction selects
ExpectedVariant(l) ==
  IF EndsWith(l, S_colon) THEN "Label"
  ELSE IF StartsWith(l, S_dot) THEN "Directive"
  ELSE IF StartsWith(l, S_semi) THEN "Comment"
  ELSE "Instruction"

AllOff == [directives |-> FALSE, comments |-> FALSE, verbose |-> FALSE]

\* line k was classified to a statement
Classified(k) == k <= Len(statements)

----------------------------------------------------------------------------
(* C1 *)

C1_Attached ==
  \A i \in 1..Len(statements) :
    statements[i].variant \in {"Label", "Instruction"}
      => statements[i].rust_loc_off = LastLocBefore(statements, i)

C1_Step ==
  /\ \A i \in 1..Len(statements) :
       i <= Len(statements') /\ statements'[i] = statements[i]
  /\ (/\ Len(statements') > Len(statements)
      /\ ~IsLocDirective(statements'[Len(statements')]))
       => current_location' = current_location

\* C1: the location attached to a Label or an Instruction is the value of
\* the most recent LocDirective strictly before it in line order, none if
\* there is none; classifying a statement that is not a LocDirective leaves
\* the tracked location unchanged; a statement, once constructed, never
\* changes.
C1_LocationTracking == [](C1_Attached) /\ [][C1_Step]_vars

\* a label before any location, a LocDirective, then an instruction that
\* carries the directive's location
C1_Witness ==
  /\ Len(statements) = 3
  /\ statements[1].variant = "Label" /\ statements[1].rust_loc_off = None
  /\ IsLocDirective(statements[2])
  /\ statements[3].variant = "Instruction"
  /\ statements[3].rust_loc_off = Some(LocValue(statements[2]))

----------------------------------------------------------------------------
(* C2 *)

\* C2: rust_loc of a statement against a file is none when the statement
\* carries no location, none when the location's file_index differs from
\* the file's index, and the location's line otherwise.
C2_Resolve ==
  probe.op = "rust_loc" =>
    LET loc == AttachedLocation(statements[probe.index])
    IN  probe.result =
          IF loc = None THEN None
          ELSE IF loc.val.file_index # probe.file.index THEN None
          ELSE Some(loc.val.file_line)

\* an instruction whose location names another file than the one asked for
C2_Witness ==
  /\ probe.op = "rust_loc"
  /\ statements[probe.index].variant = "Instruction"
  /\ statements[probe.index].rust_loc_off # None
  /\ statements[probe.index].rust_loc_off.val.file_index # probe.file.index
  /\ probe.result = None

----------------------------------------------------------------------------
(* C3 *)

\* C3: should_print is false for a Label exactly when its id starts with
\* Lcfi, Ltmp or Lfunc_end, whatever the options; it is options.directives
\* for a Directive, options.comments for a Comment, true for an Instruction.
C3_ShouldPrint ==
  probe.op = "should_print" =>
    LET st == statements[probe.index]
    IN  probe.result =
          CASE st.variant = "Label" ->
                 ~(\/ StartsWith(st.id, S_Lcfi)
                   \/ StartsWith(st.id, S_Ltmp)
                   \/ StartsWith(st.id, S_Lfunc_end))
            [] st.variant = "Directive"   -> probe.opts.directives
            [] st.variant = "Comment"     -> probe.opts.comments
            [] st.variant = "Instruction" -> TRUE

\* a function-end label is hidden although every option is on
C3_Witness ==
  /\ probe.op = "should_print"
  /\ statements[probe.index].variant = "Label"
  /\ StartsWith(statements[probe.index].id, S_Lfunc_end)
  /\ probe.opts.directives /\ probe.opts.comments /\ probe.opts.verbose
  /\ probe.result = FALSE

----------------------------------------------------------------------------
(* C4 *)

\* C4: every line is classified to exactly one statement, whose variant the
\* precedence label, directive, comment, instruction selects; the id of a
\* Label is the line without its final character.
C4_Precedence ==
  \A k \in 1..Len(lines) :
    /\ Classified(k)
    /\ statements[k].variant = ExpectedVariant(lines[k])
    /\ statements[k].variant = "Label"
         => statements[k].id = SubSeq(lines[k], 1, Len(lines[k]) - 1)

----------------------------------------------------------------------------
(* C5 *)

\* C5: the classification of a line returns a statement or an error value
\* (MalformedFileDirective, MalformedLocDirective, EmptyInstruction); it
\* never aborts.
C5_NoAbort == status # "aborted"

----------------------------------------------------------------------------
(* C6 *)

\* C6: an instruction line yields an Instruction whose mnemonic is the first
\* token; its operands are the remaining tokens, except that the first
\* operand of a call is demangled; a call without operands yields an
\* Instruction with no operands.
C6_Operands ==
  \A k \in 1..Len(lines) :
    LET toks == SplitWhitespace(lines[k])
    IN  (ExpectedVariant(lines[k]) = "Instruction" /\ toks # <<>>) =>
          /\ Classified(k)
          /\ statements[k].variant = "Instruction"
          /\ statements[k].instr = toks[1]
          /\ statements[k].args =
               IF toks[1] = S_call /\ Len(toks) >= 2
               THEN <<demangle(toks[2])>> \o SubSeq(toks, 3, Len(toks))
               ELSE Tail(toks)

----------------------------------------------------------------------------
(* C7 *)

\* a .loc line whose second and third tokens, and fourth if there is one,
\* are non-negative integers (a line ending in a colon is a label)
WellFormedLoc(l) ==
  LET toks == SplitWhitespace(l)
  IN  /\ StartsWith(l, S_loc)
      /\ ~EndsWith(l, S_colon)
      /\ Len(toks) >= 3
      /\ ParseUsize(toks[2]) # None
      /\ ParseUsize(toks[3]) # None
      /\ Len(toks) >= 4 => ParseUsize(toks[4]) # None

\* C7: a well-formed .loc line yields a LocDirective whose file_index is
\* the 2nd token, whose line is the 3rd token, and whose column is the 4th
\* token, or 0 when the line has three tokens.
C7_LocFields ==
  \A k \in 1..Len(lines) :
    WellFormedLoc(lines[k]) =>
      LET toks == SplitWhitespace(lines[k])
      IN  /\ Classified(k)
          /\ IsLocDirective(statements[k])
          /\ statements[k].dir.file_index = ParseUsize(toks[2]).val
          /\ statements[k].dir.file_line = ParseUsize(toks[3]).val
          /\ statements[k].dir.file_column =
               IF Len(toks) >= 4 THEN ParseUsize(toks[4]).val ELSE 0

\* a .loc line of three tokens with distinct file index and line
C7_Witness ==
  \E k \in 1..Len(statements) :
    /\ WellFormedLoc(lines[k])
    /\ Len(SplitWhitespace(lines[k])) = 3
    /\ IsLocDirective(statements[k])
    /\ statements[k].dir.file_index # statements[k].dir.file_line
    /\ statements[k].dir.file_column = 0

----------------------------------------------------------------------------
(* C8 *)

\* C8: a LocDirective formats as `.loc {file_index} {line} {column}` and a
\* FileDirective as `.file {index} "{path}"`; classifying the formatted
\* text gives the directive back.
C8_RoundTrip ==
  probe.op = "format" =>
    LET st == statements[probe.index]
    IN  /\ IsLocDirective(st) =>
             /\ probe.text =
                  S_loc \o S_space \o ToDecimal(st.dir.file_index)
                        \o S_space \o ToDecimal(st.dir.file_line)
                        \o S_space \o ToDecimal(st.dir.file_column)
             /\ probe.reparsed = Some(st)
        /\ IsFileDirective(st) =>
             /\ probe.text =
                  S_file \o S_space \o ToDecimal(st.dir.index)
                         \o S_space \o S_quote \o st.dir.path \o S_quote
             /\ probe.reparsed.tag = "Some"
             /\ IsFileDirective(probe.reparsed.val)
             /\ probe.reparsed.val.dir.index = st.dir.index
             /\ probe.reparsed.val.dir.path = st.dir.path

\* a FileDirective with a two-digit index, formatted and classified again
C8_Witness ==
  /\ probe.op = "format"
  /\ IsFileDirective(statements[probe.index])
  /\ statements[probe.index].dir.index = 10
  /\ statements[probe.index].dir.path # <<>>
  /\ probe.reparsed.tag = "Some"

----------------------------------------------------------------------------
(* C9 *)

C9_Rendered ==
  /\ lines = E2ELines
  /\ probe.op = "render"
  /\ probe.opts = AllOff

\* C9 as stated: the end-to-end listing renders, with every option off, as
\* the four lines `  LBB0:`, `    push rbp`, `    call bar`, `    ret`.
C9_EndToEnd ==
  C9_Rendered =>
    probe.out =
      << <<" ", " ", "L", "B", "B", "0", ":">>,
         <<" ", " ", " ", " ", "p", "u", "s", "h", " ", "r", "b", "p">>,
         <<" ", " ", " ", " ", "c", "a", "l", "l", " ", "b", "a", "r">>,
         <<" ", " ", " ", " ", "r", "e", "t">> >>

\* C9 amended: the end-to-end listing renders, with every option off, as
\* the four lines `  LBB0:`, `    push rbp`, `    call bar`, `    ret `, the
\* last with the space that follows the mnemonic of every instruction.
C9_EndToEndTrailingSpace ==
  C9_Rendered =>
    probe.out =
      << <<" ", " ", "L", "B", "B", "0", ":">>,
         <<" ", " ", " ", " ", "p", "u", "s", "h", " ", "r", "b", "p">>,
         <<" ", " ", " ", " ", "c", "a", "l", "l", " ", "b", "a", "r">>,
         <<" ", " ", " ", " ", "r", "e", "t", " ">> >>

\* the whole listing was classified and rendered with every option off
C9_Witness == C9_Rendered /\ Len(statements) = 8 /\ Len(probe.out) = 4

----------------------------------------------------------------------------
(* C10 *)

\* C10: rust_loc is none for every Directive, a LocDirective of the file
\* asked for included, and for every Comment.
C10_DirectivesNeverResolve ==
  probe.op = "rust_loc" =>
    (statements[probe.index].variant \in {"Directive", "Comment"}
       => probe.result = None)

\* a LocDirective asked for the line it declares in its own file
C10_Witness ==
  /\ probe.op = "rust_loc"
  /\ IsLocDirective(statements[probe.index])
  /\ statements[probe.index].dir.file_index = probe.file.index
  /\ probe.result = None

====
